---- MODULE Spec2Model ----
(***************************************************************************)
(* Branch lifecycle engine of netbox-branching: the persisted Branch row,  *)
(* the per-context Branch instances (Python objects holding a copy of the  *)
(* row), the active_branch context variable, the main and branch           *)
(* namespaces with their change logs, and the operations save, delete,     *)
(* provision, deprovision, sync and merge of models/branches.py.           *)
(*                                                                         *)
(* Time is a logical clock (timezone.now()); several writes may fall into  *)
(* the same tick.  Change records are drawn from the shared id sequence.   *)
(***************************************************************************)
EXTENDS Integers, Sequences, FiniteSets, TLC

\* ---- bounds of the model ------------------------------------------------
MaxTime == 2        \* the clock stops ticking here
MaxId == 3          \* changes the requests of the environment may make
MaxEvents == 2      \* BranchEvent rows of one type

\* ---- universe -----------------------------------------------------------
Ctx == {1, 2}                      \* request / job contexts running in parallel
Solo == {1}                        \* the context of a run without a concurrent caller
Ent == {1, 2}                      \* primary keys of branch-aware objects
Rows == Ent \cup {3, 4, 5}          \* rows of all tables: the objects and three more
Users == {1}                       \* acting users
SchemaIds == {1, 2}                \* the strings _generate_schema_id() may return
Acts == {"create", "update", "delete"}
None == 0 - 1                      \* Python None / SQL NULL for times and users
NoCache == 0 - 2                   \* cached_property not computed yet

S_NEW == "new"
S_PROVISIONING == "provisioning"
S_READY == "ready"
S_SYNCING == "syncing"
S_MERGING == "merging"
S_MERGED == "merged"
S_FAILED == "failed"
Statuses == {S_NEW, S_PROVISIONING, S_READY, S_SYNCING, S_MERGING, S_MERGED, S_FAILED}
EventTypes == {"provisioned", "synced", "merged", "deprovisioned"}

VARIABLES
    row,         \* the persisted Branch row (public schema)
    schemaIds,   \* the schema_id of every Branch row inserted so far
    schema,      \* the branch's namespace exists
    branchData,  \* branch namespace: object pk -> value (0 = no row)
    branchLog,   \* branch namespace: set of ObjectChange records
    mainData,    \* main namespace: object pk -> value
    mainLog,     \* main namespace: set of ObjectChange records
    applied,     \* AppliedChange rows: ids of main records linked to the branch
    events,      \* BranchEvent rows of the branch, counted per type
    job,         \* the ProvisionBranchJob of the branch: none, queued, manual, running, done
    nextId,      \* next value of the shared change-record id sequence
    now,         \* timezone.now()
    inst,        \* per context: the Branch instance it holds
    active,      \* per context: active_branch (None or the branch)
    scope,       \* per context: tokens of the caller's own activate/deactivate scope
    pc,          \* per context: position inside sync()/merge()
    arg,         \* per context: the commit flag and user of the running call, and
                 \* (history) the ids of the branch's log when merge() was called
    reflected,   \* history: per main record id, how often it reached the branch
    last         \* the latest call: operation, context, outcome (returned or raised),
                 \* and for a replay the order chosen and the number of records applied

vars == <<row, schemaIds, schema, branchData, branchLog, mainData, mainLog, applied,
          events, job, nextId, now, inst, active, scope, pc, arg, reflected, last>>

dbvars == <<row, schemaIds, schema, branchData, branchLog, mainData, mainLog, applied,
            events, job, nextId>>

\* ---- records ------------------------------------------------------------
NoRow == [exists |-> FALSE, schema_id |-> None, status |-> S_NEW, created |-> None,
          last_sync |-> None, merged_time |-> None, merged_by |-> None]

\* A Branch() constructed with no pk: status defaults to S_NEW, nullable fields
\* unset; __init__ then draws the schema_id.
NewInst == [has |-> TRUE, pk |-> FALSE, schema_id |-> None, status |-> S_NEW,
            created |-> None,
            last_sync |-> None, merged_time |-> None, merged_by |-> None,
            synced |-> NoCache]

NoInst == [has |-> FALSE, pk |-> FALSE, schema_id |-> None, status |-> S_NEW,
           created |-> None,
           last_sync |-> None, merged_time |-> None, merged_by |-> None,
           synced |-> NoCache]

\* An instance fetched from the database.
InstOf(r) == [has |-> TRUE, pk |-> TRUE, schema_id |-> r.schema_id, status |-> r.status,
              created |-> r.created,
              last_sync |-> r.last_sync, merged_time |-> r.merged_time,
              merged_by |-> r.merged_by, synced |-> NoCache]

\* A save() that writes the status column only.
RowOfStatusOnly(i) ==
    [row EXCEPT !.exists = TRUE, !.schema_id = i.schema_id, !.status = i.status]

\* The row written by Model.save(): every field of the instance.
RowOf(i) == [exists |-> TRUE, schema_id |-> i.schema_id, status |-> i.status,
             created |-> i.created,
             last_sync |-> i.last_sync, merged_time |-> i.merged_time,
             merged_by |-> i.merged_by]

\* QuerySet.update(status=s) on filter(pk=self.pk): touches the row only if it exists.
UpdateStatus(r, s) == IF r.exists THEN [r EXCEPT !.status = s] ELSE r

EmptyData == [e \in Rows |-> 0]
NoEvents == [t \in EventTypes |-> 0]
StepR(op, c, out, seq, done) == [op |-> op, ctx |-> c, out |-> out, seq |-> seq, done |-> done]
Step(op, c, out, seq) == StepR(op, c, out, seq, 0)
Other == Step("other", 0, "ok", <<>>)
Ids(seq) == [k \in 1..Len(seq) |-> seq[k].id]

\* ---- change records and their replay -------------------------------------
Rec(id, t, e, a) == [id |-> id, time |-> t, ent |-> e, act |-> a]

\* ObjectChange.apply(): create inserts the object (its pk must be free), update
\* and delete look the object up by pk.
CanApply(d, r) == IF r.act = "create" THEN d[r.ent] = 0 ELSE d[r.ent] # 0

ApplyTo(d, r) ==
    [d EXCEPT ![r.ent] = IF r.act = "create" THEN 1 ELSE IF r.act = "update" THEN 2 ELSE 0]

\* The loop "for change in ...: change.apply()": stops at the first record that
\* raises.  done = number of records applied, ok = no record raised.
RECURSIVE ReplayFrom(_, _, _)
ReplayFrom(d, seq, i) ==
    IF i > Len(seq) THEN [data |-> d, done |-> Len(seq), ok |-> TRUE]
    ELSE IF ~CanApply(d, seq[i]) THEN [data |-> d, done |-> i - 1, ok |-> FALSE]
    ELSE ReplayFrom(ApplyTo(d, seq[i]), seq, i + 1)

Replay(d, seq) == ReplayFrom(d, seq, 1)

Perms(S) ==
    {f \in [1..Cardinality(S) -> S] : \A i, j \in 1..Cardinality(S) : i # j => f[i] # f[j]}

\* A queryset iterated without its order_by('time').
Unordered(S) == Perms(S)

\* order_by('time'): the rows in ascending time; rows of equal time come back in
\* an order the database chooses.
OrderByTime(S) ==
    {f \in Perms(S) : \A i, j \in 1..Cardinality(S) : i < j => f[i].time <= f[j].time}

\* ---- the tables of a namespace --------------------------------------------
\* The installed models: app label, table, whether the model supports change
\* logging, and its local many-to-many fields (related model, join table).
Models ==
    { [name |-> "site", app |-> "dcim", table |-> "dcim_site", logged |-> TRUE,
       m2m |-> {[to |-> "tag", through |-> "dcim_site_tags"],
                [to |-> "user", through |-> "dcim_site_users"]}],
      [name |-> "tag", app |-> "extras", table |-> "extras_tag", logged |-> TRUE,
       m2m |-> {}],
      [name |-> "user", app |-> "users", table |-> "users_user", logged |-> FALSE,
       m2m |-> {[to |-> "tag", through |-> "users_user_tags"]}],
      [name |-> "branch", app |-> "netbox_vcs", table |-> "netbox_vcs_branch",
       logged |-> TRUE, m2m |-> {}] }

\* The table a row lives in: the objects are sites; row 3 joins a site and a
\* tag, row 4 is a user, row 5 joins a site and a user.
TableOf(e) ==
    IF e \in Ent THEN "dcim_site"
    ELSE IF e = 3 THEN "dcim_site_tags"
    ELSE IF e = 4 THEN "users_user" ELSE "dcim_site_users"

\* get_branchable_object_types(): the models with change logging, the plugin's
\* own excluded.
GetBranchableObjectTypes == {m \in Models : m.logged /\ m.app # "netbox_vcs"}

\* A get_tables_to_replicate() that leaves out the join tables.
GetTablesWithoutJoins == {m.table : m \in GetBranchableObjectTypes}

\* get_tables_to_replicate(): the table of every branch-aware model and the
\* join table of each of its many-to-many fields whose related model is
\* branch-aware too, each once.
GetTablesToReplicate ==
    {m.table : m \in GetBranchableObjectTypes}
    \cup {f.through : f \in {g \in UNION {m.m2m : m \in GetBranchableObjectTypes} :
                                  g.to \in {m.name : m \in GetBranchableObjectTypes}}}

\* provision(), lines 344-357: CREATE TABLE ... LIKE and INSERT ... SELECT * for
\* every table to replicate; a table that is not replicated has no rows in the
\* namespace.
Replicate(d) == [e \in Rows |-> IF TableOf(e) \in GetTablesToReplicate THEN d[e] ELSE 0]

\* ---- Branch properties --------------------------------------------------
\* A ready check that lets a merged branch through.
ReadyOrMerged(i) == i.status \in {S_READY, S_MERGED}

\* Branch.ready
Ready(i) == i.status = S_READY

\* Branch.synced_time, a cached_property: last_sync or created, computed on first
\* use and kept on the instance afterwards.
SyncedTime(i) ==
    IF i.synced # NoCache THEN i.synced
    ELSE IF i.last_sync # None THEN i.last_sync ELSE i.created

\* Branch.get_unsynced_changes(): main records with time > synced_time.
GetUnsyncedChanges(i) == {r \in mainLog : r.time > SyncedTime(i)}

\* Branch.get_changes() of an instance that is neither S_NEW nor S_MERGED: the
\* branch connection's ObjectChange table.
GetChanges(i) ==
    IF i.status = S_NEW THEN {}
    ELSE IF i.status = S_MERGED THEN {r \in mainLog : r.id \in applied}
    ELSE branchLog

Idle(c) == pc[c] = "idle"

\* History: the main records of ids have reached the branch namespace once more.
Reflect(h, ids) == [once |-> h.once \cup ids, more |-> h.more \cup (h.once \cap ids)]

Init ==
    /\ row = NoRow
    /\ schemaIds = {}
    /\ schema = FALSE
    /\ branchData = EmptyData
    /\ branchLog = {}
    /\ mainData = [e \in Rows |-> IF e = 2 THEN 0 ELSE 1]
    /\ mainLog = {}
    /\ applied = {}
    /\ events = NoEvents
    /\ job = "none"
    /\ nextId = 1
    /\ now = 1
    /\ inst = [c \in Ctx |-> NoInst]
    /\ active = [c \in Ctx |-> FALSE]
    /\ scope = [c \in Ctx |-> <<>>]
    /\ pc = [c \in Ctx |-> "idle"]
    /\ arg = [c \in Ctx |-> [commit |-> TRUE, user |-> 1, seen |-> {}]]
    /\ reflected = [once |-> {}, more |-> {}]
    /\ last = Other

\* ---- the environment ----------------------------------------------------
\* timezone.now() advances.
Tick ==
    /\ now < MaxTime
    /\ now' = now + 1
    /\ last' = Other
    /\ UNCHANGED <<dbvars, inst, active, scope, pc, arg, reflected>>

\* A request outside any branch changes a branch-aware object; the change-logging
\* layer writes its ObjectChange record to the main log.
MainWrite(e, a) ==
    /\ Cardinality(mainLog) + Cardinality(branchLog) < MaxId
    /\ CanApply(mainData, Rec(nextId, now, e, a))
    /\ mainData' = ApplyTo(mainData, Rec(nextId, now, e, a))
    /\ mainLog' = mainLog \cup {Rec(nextId, now, e, a)}
    /\ nextId' = nextId + 1
    /\ last' = Other
    /\ UNCHANGED <<row, schemaIds, schema, branchData, branchLog, applied, events, job,
                   now, inst, active, scope, pc, arg, reflected>>

\* A request with the branch active changes an object inside the branch's
\* namespace; its ObjectChange record goes to the branch's own log.
BranchWrite(e, a) ==
    /\ schema
    /\ Cardinality(mainLog) + Cardinality(branchLog) < MaxId
    /\ CanApply(branchData, Rec(nextId, now, e, a))
    /\ branchData' = ApplyTo(branchData, Rec(nextId, now, e, a))
    /\ branchLog' = branchLog \cup {Rec(nextId, now, e, a)}
    /\ nextId' = nextId + 1
    /\ last' = Other
    /\ UNCHANGED <<row, schemaIds, schema, mainData, mainLog, applied, events, job,
                   now, inst, active, scope, pc, arg, reflected>>

\* ---- the activation context ---------------------------------------------
\* activate_branch(): "token = set(branch); yield; reset(token)" with no
\* try/finally.  The value of active_branch once the with-block is left: the one
\* saved in the token if the body returned, the one the body left if it raised.
ActivateExit(saved, current, raised) == IF raised THEN current ELSE saved

\* A caller opens its own "with activate_branch(branch):" block.
ScopeEnter(c) ==
    /\ Idle(c) /\ row.exists
    /\ scope[c] = <<>>
    /\ scope' = [scope EXCEPT ![c] = <<active[c]>>]
    /\ active' = [active EXCEPT ![c] = TRUE]
    /\ last' = Other
    /\ UNCHANGED <<dbvars, now, inst, pc, arg, reflected>>

\* The caller's block ends, by returning or by an exception leaving it.
ScopeExit(c, raised) ==
    /\ Idle(c)
    /\ scope[c] # <<>>
    /\ active' = [active EXCEPT ![c] = ActivateExit(scope[c][1], active[c], raised)]
    /\ scope' = [scope EXCEPT ![c] = <<>>]
    /\ last' = Step("scope_exit", c, IF raised THEN "error" ELSE "ok", <<>>)
    /\ UNCHANGED <<dbvars, now, inst, pc, arg, reflected>>

\* ---- Branch administration ----------------------------------------------
\* Branch(...): a new, unsaved instance; its schema_id is whatever
\* random.choices() returns.
Construct(c) ==
    /\ Idle(c)
    /\ \E sid \in SchemaIds : inst' = [inst EXCEPT ![c] = [NewInst EXCEPT !.schema_id = sid]]
    /\ last' = Other
    /\ UNCHANGED <<dbvars, now, active, scope, pc, arg, reflected>>

\* Branch.objects.get(pk=...): a fresh instance read from the row.
Load(c) ==
    /\ Idle(c)
    /\ row.exists
    /\ inst' = [inst EXCEPT ![c] = InstOf(row)]
    /\ last' = Other
    /\ UNCHANGED <<dbvars, now, active, scope, pc, arg, reflected>>

\* A save() without the active-branch guard.
SaveUnguarded(i, isActive, provision) ==
    IF ~i.pk
    THEN [out |-> "ok",
          inst |-> [i EXCEPT !.pk = TRUE, !.created = now],
          row |-> RowOf([i EXCEPT !.created = now]),
          job |-> IF provision THEN "queued" ELSE "manual"]
    ELSE [out |-> "ok", inst |-> i, row |-> RowOf(i), job |-> job]

\* Branch.save(): AbortRequest before anything is written when a branch is
\* active; otherwise an INSERT (created stamped, the provisioning job enqueued
\* unless provision=False, when the caller is to call provision() itself) or an
\* UPDATE of every field.
SaveResult(i, isActive, provision) ==
    IF isActive THEN [out |-> "abort", inst |-> i, row |-> row, job |-> job]
    ELSE IF ~i.pk
         THEN [out |-> "ok",
               inst |-> [i EXCEPT !.pk = TRUE, !.created = now],
               row |-> RowOf([i EXCEPT !.created = now]),
               job |-> IF provision THEN "queued" ELSE "manual"]
         ELSE [out |-> "ok", inst |-> i, row |-> RowOf(i), job |-> job]

Save(c, provision) ==
    /\ Idle(c) /\ inst[c].has
    \* one Branch at a time is modelled: a further one is created once the
    \* earlier one is deleted, its job has ended and its namespace is gone
    /\ inst[c].pk \/ active[c] \/ (~row.exists /\ ~schema /\ job \in {"none", "done"})
    /\ LET res == SaveResult(inst[c], active[c], provision) IN
        /\ row' = res.row
        /\ job' = res.job
        /\ inst' = [inst EXCEPT ![c] = res.inst]
        /\ schemaIds' = IF res.out = "ok" /\ ~inst[c].pk
                        THEN schemaIds \cup {inst[c].schema_id} ELSE schemaIds
        /\ last' = Step("save", c, res.out, <<>>)
    /\ UNCHANGED <<schema, branchData, branchLog, mainData, mainLog, applied, events,
                   nextId, now, active, scope, pc, arg, reflected>>

\* A deprovision() whose statement is DROP SCHEMA ... CASCADE without IF EXISTS:
\* it raises when there is no namespace.
DeprovisionStrict(c) ==
    /\ Idle(c) /\ inst[c].has /\ inst[c].pk
    /\ schema' = FALSE
    /\ branchData' = EmptyData
    /\ branchLog' = {}
    /\ last' = Step("deprovision", c, IF schema THEN "ok" ELSE "error", <<>>)
    /\ UNCHANGED <<row, schemaIds, mainData, mainLog, applied, events, job, nextId,
                   now, inst, active, scope, pc, arg, reflected>>

\* Branch.deprovision(): DROP SCHEMA IF EXISTS ... CASCADE.
Deprovision(c) ==
    /\ Idle(c) /\ inst[c].has /\ inst[c].pk
    /\ schema' = FALSE
    /\ branchData' = EmptyData
    /\ branchLog' = {}
    /\ last' = Step("deprovision", c, "ok", <<>>)
    /\ UNCHANGED <<row, schemaIds, mainData, mainLog, applied, events, job, nextId,
                   now, inst, active, scope, pc, arg, reflected>>

\* Branch.delete(): the guard, then deprovision(), then the row and the rows that
\* cascade from it.
Delete(c) ==
    /\ Idle(c) /\ inst[c].has /\ inst[c].pk
    /\ IF active[c]
       THEN /\ last' = Step("delete", c, "abort", <<>>)
            /\ UNCHANGED <<dbvars, inst>>
       ELSE /\ schema' = FALSE
            /\ branchData' = EmptyData
            /\ branchLog' = {}
            /\ row' = NoRow
            /\ events' = NoEvents
            /\ applied' = {}
            /\ inst' = [inst EXCEPT ![c].pk = FALSE]
            /\ last' = Step("delete", c, "ok", <<>>)
            /\ UNCHANGED <<schemaIds, mainData, mainLog, job, nextId>>
    /\ UNCHANGED <<now, active, scope, pc, arg, reflected>>

\* ---- provisioning -------------------------------------------------------
\* Branch.provision(), first statement: the status update.
ProvisionBegin ==
    /\ job \in {"queued", "manual"}
    /\ job' = "running"
    /\ row' = UpdateStatus(row, S_PROVISIONING)
    /\ last' = Step("provision_begin", 0, "ok", <<>>)
    /\ UNCHANGED <<schemaIds, schema, branchData, branchLog, mainData, mainLog, applied,
                   events, nextId, now, inst, active, scope, pc, arg, reflected>>

\* A provision() whose except clause re-raises without marking the branch failed.
ProvisionKeepsStatus(failAt) ==
    /\ job = "running"
    /\ job' = "done"
    /\ IF failAt = "schema" \/ schema
       THEN /\ last' = Step("provision", 0, "error", <<>>)
            /\ UNCHANGED <<row, schema, branchData, branchLog, events, reflected>>
       ELSE IF failAt = "tables"
       THEN /\ schema' = TRUE
            /\ branchData' = EmptyData
            /\ branchLog' = {}
            /\ last' = Step("provision", 0, "error", <<>>)
            /\ UNCHANGED <<row, events, reflected>>
       ELSE /\ row' = UpdateStatus(row, S_READY)
            /\ schema' = TRUE
            /\ branchData' = Replicate(mainData)
            /\ branchLog' = {}
            /\ events' = IF row.exists
                         THEN [events EXCEPT !["provisioned"] = @ + 1] ELSE events
            /\ reflected' = Reflect(reflected, {r.id : r \in mainLog})
            /\ last' = Step("provision", 0, IF row.exists THEN "ok" ELSE "error", <<>>)
    /\ UNCHANGED <<schemaIds, mainData, mainLog, applied, nextId, now, inst, active,
                   scope, pc, arg>>

\* Branch.provision(), the rest.  failAt: "schema" (CREATE SCHEMA raises, e.g.
\* permission denied), "tables" (a later statement raises) or "none".  CREATE
\* SCHEMA also raises when the schema exists.  The statements run on a plain
\* cursor, so the schema created before a failure stays.  When the Branch row
\* is gone by then, the updates touch no row and creating the BranchEvent raises.
ProvisionRun(failAt) ==
    /\ job = "running"
    /\ job' = "done"
    /\ IF failAt = "schema" \/ schema
       THEN /\ row' = UpdateStatus(row, S_FAILED)
            /\ last' = Step("provision", 0, "error", <<>>)
            /\ UNCHANGED <<schema, branchData, branchLog, events, reflected>>
       ELSE IF failAt = "tables"
       THEN /\ row' = UpdateStatus(row, S_FAILED)
            /\ schema' = TRUE
            /\ branchData' = EmptyData
            /\ branchLog' = {}
            /\ last' = Step("provision", 0, "error", <<>>)
            /\ UNCHANGED <<events, reflected>>
       ELSE /\ row' = UpdateStatus(row, S_READY)
            /\ schema' = TRUE
            /\ branchData' = Replicate(mainData)
            /\ branchLog' = {}
            /\ events' = IF row.exists
                         THEN [events EXCEPT !["provisioned"] = @ + 1] ELSE events
            /\ reflected' = Reflect(reflected, {r.id : r \in mainLog})
            /\ last' = Step("provision", 0, IF row.exists THEN "ok" ELSE "error", <<>>)
    /\ UNCHANGED <<schemaIds, mainData, mainLog, applied, nextId, now, inst, active,
                   scope, pc, arg>>

\* ---- sync ---------------------------------------------------------------
Running(ops) == Cardinality({c \in Ctx : pc[c] \in ops})

\* Branch.sync(), lines 207-211: the ready check on the instance, then the status
\* update.
SyncBegin(c, commit, user) ==
    /\ Idle(c) /\ inst[c].has /\ inst[c].pk
    /\ events["synced"] + Running({"syncing", "sync_save"}) < MaxEvents
    /\ IF ~Ready(inst[c])
       THEN /\ last' = Step("sync", c, "rejected", <<>>)
            /\ UNCHANGED <<row, pc, arg>>
       ELSE /\ row' = UpdateStatus(row, S_SYNCING)
            /\ pc' = [pc EXCEPT ![c] = "syncing"]
            /\ arg' = [arg EXCEPT ![c] = [commit |-> commit, user |-> user, seen |-> {}]]
            /\ last' = Step("sync", c, "started", <<>>)
    /\ UNCHANGED <<schemaIds, schema, branchData, branchLog, mainData, mainLog, applied,
                   events, job, nextId, now, inst, active, scope, reflected>>

\* How many of the records the loop of sync() applied stay in the branch
\* namespace when the with-block is left.  The atomic block of line 215 is opened
\* on the default connection, while every record is applied through the branch's
\* own connection (line 219), which commits each record as it is applied: the
\* records applied before a failure, or before AbortTransaction, all stay.
SyncKept(res, raised) == res.done

\* Branch.sync(), lines 213-227: activate the branch, replay, and on any
\* exception restore the status and re-raise.
SyncReplay(c) ==
    /\ pc[c] = "syncing"
    /\ \E seq \in OrderByTime(GetUnsyncedChanges(inst[c])) :
        LET res == IF schema THEN Replay(branchData, seq)
                   ELSE [data |-> branchData, done |-> 0, ok |-> seq = <<>>]
            raised == ~res.ok \/ ~arg[c].commit
            out == IF ~res.ok THEN "error" ELSE IF ~arg[c].commit THEN "aborted" ELSE "ok"
            kept == SyncKept(res, raised)
        IN  /\ inst' = [inst EXCEPT ![c].synced = SyncedTime(inst[c])]
            /\ branchData' = Replay(branchData, SubSeq(seq, 1, kept)).data
            /\ reflected' = Reflect(reflected, {seq[k].id : k \in 1..kept})
            /\ active' = [active EXCEPT ![c] = ActivateExit(active[c], TRUE, raised)]
            /\ row' = IF raised THEN UpdateStatus(row, S_READY) ELSE row
            /\ pc' = [pc EXCEPT ![c] = IF raised THEN "idle" ELSE "sync_save"]
            /\ last' = StepR("sync_replay", c, out, Ids(seq), res.done)
    /\ UNCHANGED <<schemaIds, schema, branchLog, mainData, mainLog, applied, events, job,
                   nextId, now, scope, arg>>

\* Branch.sync(), lines 229-233: stamp last_sync, save() the instance, record the
\* event.
SyncFinish(c) ==
    /\ pc[c] = "sync_save"
    /\ LET i == [inst[c] EXCEPT !.last_sync = now, !.status = S_READY]
           res == SaveResult(i, active[c], TRUE)
       IN  /\ inst' = [inst EXCEPT ![c] = res.inst]
           /\ row' = res.row
           /\ events' = IF res.out = "ok"
                        THEN [events EXCEPT !["synced"] = @ + 1] ELSE events
           /\ last' = Step("sync_finish", c, res.out, <<>>)
    /\ pc' = [pc EXCEPT ![c] = "idle"]
    /\ UNCHANGED <<schemaIds, schema, branchData, branchLog, mainData, mainLog, applied,
                   job, nextId, now, active, scope, arg, reflected>>

\* ---- merge --------------------------------------------------------------
\* Branch.merge(), lines 250-257: the ready check on the instance, the (lazy)
\* queryset of the branch's changes, then the status update.
MergeBegin(c, commit, user) ==
    /\ Idle(c) /\ inst[c].has /\ inst[c].pk
    /\ events["merged"] + Running({"merging", "merge_save"}) < MaxEvents
    /\ IF ~Ready(inst[c])
       THEN /\ last' = Step("merge", c, "rejected", <<>>)
            /\ UNCHANGED <<row, pc, arg>>
       ELSE /\ row' = UpdateStatus(row, S_MERGING)
            /\ pc' = [pc EXCEPT ![c] = "merging"]
            /\ arg' = [arg EXCEPT ![c] = [commit |-> commit, user |-> user,
                                         seen |-> {r.id : r \in branchLog}]]
            /\ last' = Step("merge", c, "started", <<>>)
    /\ UNCHANGED <<schemaIds, schema, branchData, branchLog, mainData, mainLog, applied,
                   events, job, nextId, now, inst, active, scope, reflected>>

\* A merge whose replayed records were committed one by one.
MergeKeptEachCommitted(res, raised) == res.done

\* How many of the records the loop of merge() applied stay in main when the
\* atomic block of line 267 is left: the block and the records' apply() both use
\* the default connection, so an exception rolls all of them back.
MergeKept(res, raised) == IF raised THEN 0 ELSE res.done

\* The ObjectChange rows main's change logging writes for the replayed records
\* (event_tracking, lines 270-274), each with a fresh id of the shared sequence
\* (ids drawn inside a block that is rolled back are never seen: the model hands
\* them out again).
MergedRecords(seq, n) == {Rec(nextId + k - 1, now, seq[k].ent, seq[k].act) : k \in 1..n}

\* Branch.merge(), lines 266-283: iterate the queryset (it is evaluated here),
\* replay into main inside one atomic block, and on any exception restore the
\* status and re-raise.
MergeReplay(c) ==
    /\ pc[c] = "merging"
    /\ \E seq \in OrderByTime(IF schema THEN GetChanges(inst[c]) ELSE {}) :
        LET res == IF schema THEN Replay(mainData, seq)
                   ELSE [data |-> mainData, done |-> 0, ok |-> FALSE]
            raised == ~res.ok \/ ~arg[c].commit
            out == IF ~res.ok THEN "error" ELSE IF ~arg[c].commit THEN "aborted" ELSE "ok"
            kept == MergeKept(res, raised)
        IN  /\ mainData' = Replay(mainData, SubSeq(seq, 1, kept)).data
            /\ mainLog' = mainLog \cup MergedRecords(seq, kept)
            /\ applied' = applied \cup {r.id : r \in MergedRecords(seq, kept)}
            /\ nextId' = nextId + kept
            /\ row' = IF raised THEN UpdateStatus(row, S_READY) ELSE row
            /\ pc' = [pc EXCEPT ![c] = IF raised THEN "idle" ELSE "merge_save"]
            /\ last' = StepR("merge_replay", c, out, Ids(seq), res.done)
    /\ UNCHANGED <<schemaIds, schema, branchData, branchLog, events, job, now, inst,
                   active, scope, arg, reflected>>

\* Branch.merge(), lines 285-290: stamp the merge, save() the instance, record
\* the event.
MergeFinish(c) ==
    /\ pc[c] = "merge_save"
    /\ LET i == [inst[c] EXCEPT !.status = S_MERGED, !.merged_time = now,
                                !.merged_by = arg[c].user]
           res == SaveResult(i, active[c], TRUE)
       IN  /\ inst' = [inst EXCEPT ![c] = res.inst]
           /\ row' = res.row
           /\ events' = IF res.out = "ok"
                        THEN [events EXCEPT !["merged"] = @ + 1] ELSE events
           /\ last' = Step("merge_finish", c, res.out, <<>>)
    /\ pc' = [pc EXCEPT ![c] = "idle"]
    /\ UNCHANGED <<schemaIds, schema, branchData, branchLog, mainData, mainLog, applied,
                   job, nextId, now, active, scope, arg, reflected>>

\* save() in a run that follows one Branch: no further Branch is created after
\* the first.
SaveOne(c, provision) ==
    /\ inst[c].pk \/ active[c] \/ schemaIds = {}
    /\ Save(c, provision)

\* ---- specification ------------------------------------------------------
\* The branch's lifecycle as one caller and the provisioning job drive it; the
\* data of the namespaces changes only by provisioning.
Next ==
    \/ Tick
    \/ \E c \in Solo : ScopeEnter(c)
    \/ \E c \in Solo, raised \in BOOLEAN : ScopeExit(c, raised)
    \/ \E c \in Solo : Construct(c)
    \/ \E c \in Solo : Load(c)
    \/ \E c \in Solo, provision \in BOOLEAN : SaveOne(c, provision)
    \/ \E c \in Solo : Deprovision(c)
    \/ \E c \in Solo : Delete(c)
    \/ ProvisionBegin
    \/ \E failAt \in {"none", "schema", "tables"} : ProvisionRun(failAt)
    \/ \E c \in Solo, commit \in BOOLEAN, user \in Users : SyncBegin(c, commit, user)
    \/ \E c \in Solo : SyncReplay(c)
    \/ \E c \in Solo : SyncFinish(c)
    \/ \E c \in Solo, commit \in BOOLEAN, user \in Users : MergeBegin(c, commit, user)
    \/ \E c \in Solo : MergeReplay(c)
    \/ \E c \in Solo : MergeFinish(c)

Spec == Init /\ [][Next]_vars

\* Creation, provisioning and sync of a branch while main keeps changing.
NextLife ==
    \/ Tick
    \/ \E e \in Ent, a \in Acts : MainWrite(e, a)
    \/ \E c \in Solo : Construct(c)
    \/ \E c \in Solo : Load(c)
    \/ \E c \in Solo, provision \in BOOLEAN : SaveOne(c, provision)
    \/ ProvisionBegin
    \/ \E failAt \in {"none", "schema", "tables"} : ProvisionRun(failAt)
    \/ \E c \in Solo, commit \in BOOLEAN, user \in Users : SyncBegin(c, commit, user)
    \/ \E c \in Solo : SyncReplay(c)
    \/ \E c \in Solo : SyncFinish(c)

SpecLife == Init /\ [][NextLife]_vars

\* Creation and provisioning of a branch while main keeps changing.
NextProvision ==
    \/ Tick
    \/ \E e \in Ent, a \in Acts : MainWrite(e, a)
    \/ \E c \in Solo : Construct(c)
    \/ \E c \in Solo, provision \in BOOLEAN : SaveOne(c, provision)
    \/ ProvisionBegin
    \/ \E failAt \in {"none", "schema", "tables"} : ProvisionRun(failAt)

SpecProvision == Init /\ [][NextProvision]_vars

\* Branches created, provisioned and deleted one after the other.
NextIds ==
    \/ \E c \in Solo : Construct(c)
    \/ \E c \in Solo : Load(c)
    \/ \E c \in Solo, provision \in BOOLEAN : Save(c, provision)
    \/ \E c \in Solo : Deprovision(c)
    \/ \E c \in Solo : Delete(c)
    \/ ProvisionBegin
    \/ \E failAt \in {"none", "schema", "tables"} : ProvisionRun(failAt)

SpecIds == Init /\ [][NextIds]_vars

\* A branch created at time 1 and provisioned from main's initial data, no
\* instance loaded yet: the state Construct, Save, ProvisionBegin, ProvisionRun
\* lead to from Init.
InitReady ==
    /\ row = [NoRow EXCEPT !.exists = TRUE, !.schema_id = 1, !.status = S_READY,
                           !.created = 1]
    /\ schemaIds = {1}
    /\ schema = TRUE
    /\ mainData = [e \in Rows |-> IF e = 2 THEN 0 ELSE 1]
    /\ branchData = Replicate(mainData)
    /\ branchLog = {}
    /\ mainLog = {}
    /\ applied = {}
    /\ events = [NoEvents EXCEPT !["provisioned"] = 1]
    /\ job = "done"
    /\ nextId = 1
    /\ now = 1
    /\ inst = [c \in Ctx |-> NoInst]
    /\ active = [c \in Ctx |-> FALSE]
    /\ scope = [c \in Ctx |-> <<>>]
    /\ pc = [c \in Ctx |-> "idle"]
    /\ arg = [c \in Ctx |-> [commit |-> TRUE, user |-> 1, seen |-> {}]]
    /\ reflected = [once |-> {}, more |-> {}]
    /\ last = Other

\* sync() on a provisioned branch while both namespaces keep changing.
NextSync ==
    \/ Tick
    \/ \E e \in Ent, a \in Acts : MainWrite(e, a)
    \/ \E e \in Ent, a \in Acts : BranchWrite(e, a)
    \/ \E c \in Solo : Load(c)
    \/ \E c \in Solo, commit \in BOOLEAN, user \in Users : SyncBegin(c, commit, user)
    \/ \E c \in Solo : SyncReplay(c)
    \/ \E c \in Solo : SyncFinish(c)

SpecSync == InitReady /\ [][NextSync]_vars

\* merge() on a provisioned branch while both namespaces keep changing.
NextMerge ==
    \/ Tick
    \/ \E e \in Ent, a \in Acts : MainWrite(e, a)
    \/ \E e \in Ent, a \in Acts : BranchWrite(e, a)
    \/ \E c \in Solo : Load(c)
    \/ \E c \in Solo, commit \in BOOLEAN, user \in Users : MergeBegin(c, commit, user)
    \/ \E c \in Solo : MergeReplay(c)
    \/ \E c \in Solo : MergeFinish(c)

SpecMerge == InitReady /\ [][NextMerge]_vars

\* Two contexts calling sync() and merge() on the same provisioned branch.
NextRace ==
    \/ Tick
    \/ \E c \in Ctx : Load(c)
    \/ \E c \in Ctx, commit \in BOOLEAN, user \in Users : SyncBegin(c, commit, user)
    \/ \E c \in Ctx : SyncReplay(c)
    \/ \E c \in Ctx : SyncFinish(c)
    \/ \E c \in Ctx, commit \in BOOLEAN, user \in Users : MergeBegin(c, commit, user)
    \/ \E c \in Ctx : MergeReplay(c)
    \/ \E c \in Ctx : MergeFinish(c)

SpecRace == InitReady /\ [][NextRace]_vars

\* ---- claims -------------------------------------------------------------
\* The replay order of the latest call followed the records' ids (creation order).
InIdOrder(seq) == \A i, j \in 1..Len(seq) : i < j => seq[i] < seq[j]

\* C1: when a record fails to apply during sync(), the call leaves the branch
\* namespace's data as it was, the persisted status ready, last_sync untouched
\* and no synced event, and raises.  (Stated for replays in creation order, so
\* that the failing record is one that fails in every order of equal timestamps.)
C1_SyncFailureRollsBack ==
    [][(last'.op = "sync_replay" /\ last'.out = "error" /\ InIdOrder(last'.seq))
        => /\ branchData' = branchData
           /\ row'.status = S_READY
           /\ row'.last_sync = row.last_sync
           /\ events' = events
           /\ pc'[last'.ctx] = "idle"]_vars

\* A sync() whose replay failed after at least one record had been applied.
C1_Witness ==
    last.op = "sync_replay" /\ last.out = "error" /\ last.done >= 1 /\ InIdOrder(last.seq)

\* C2: when a record fails to apply during merge(), the call leaves main's data,
\* change log and AppliedChange rows as they were, the persisted status ready,
\* merged_time and merged_by unset and no merged event, raises, and leaves the
\* caller's instance ready so that a later merge() passes the ready check.
C2_MergeFailureRollsBack ==
    [][(last'.op = "merge_replay" /\ last'.out = "error")
        => /\ mainData' = mainData
           /\ mainLog' = mainLog
           /\ applied' = applied
           /\ row'.status = S_READY
           /\ row'.merged_time = None
           /\ row'.merged_by = None
           /\ events' = events
           /\ pc'[last'.ctx] = "idle"
           /\ inst'[last'.ctx].status = S_READY]_vars

\* A merge() whose replay failed after at least one record had been applied.
C2_Witness == last.op = "merge_replay" /\ last.out = "error" /\ last.done >= 1

\* C3: every change record written to main reaches the branch namespace exactly
\* once: never through both the provisioning snapshot and a sync, never through
\* two syncs, and never left out by a sync whose last_sync stamp has passed it.
C3_ExactlyOnce ==
    /\ reflected.more = {}
    /\ (row.exists /\ row.last_sync # None /\ schema)
        => \A r \in mainLog : r.time <= row.last_sync => r.id \in reflected.once

\* The record of a branch record's id.
BranchRec(id) == CHOOSE r \in branchLog : r.id = id

\* C4: a successful merge() applies every record of the branch's log exactly
\* once, a record of smaller timestamp before any record of larger timestamp,
\* and main ends as the records applied one by one in that order leave it, with
\* one main change record and one AppliedChange per branch record.
C4_MergeInTimeOrder ==
    [][(last'.op = "merge_replay" /\ last'.out = "ok")
        => LET seq == last'.seq
               n == Len(seq)
           IN  /\ n = Cardinality(branchLog)
               /\ {seq[k] : k \in 1..n} = {r.id : r \in branchLog}
               /\ \A i, j \in 1..n :
                     BranchRec(seq[i]).time < BranchRec(seq[j]).time => i < j
               /\ mainData' = Replay(mainData, [k \in 1..n |-> BranchRec(seq[k])]).data
               /\ Cardinality(mainLog') = Cardinality(mainLog) + n
               /\ Cardinality(applied') = Cardinality(applied) + n]_vars

\* A merge that succeeded on a log in which a record updates the object an
\* earlier record created.
C4_Witness ==
    /\ last.op = "merge_replay" /\ last.out = "ok"
    /\ \E a, b \in branchLog :
          a.time < b.time /\ a.ent = b.ent /\ a.act = "create" /\ b.act = "update"

\* C5: records of equal timestamp are replayed by sync() and merge() in the
\* order of their sequence numbers.
C5_TieBreakBySequence ==
    [][(last'.op = "merge_replay")
        => \A i, j \in 1..Len(last'.seq) :
              (i < j /\ BranchRec(last'.seq[i]).time = BranchRec(last'.seq[j]).time)
                  => last'.seq[i] < last'.seq[j]]_vars

\* C6: at most one sync or merge is in progress on the branch at any time.
C6_OneReplayAtATime == Cardinality({c \in Ctx : pc[c] # "idle"}) <= 1

\* C7: sync() or merge() called on an instance whose status is not ready is
\* rejected and changes nothing: not the row, the events, either namespace's data
\* and log, the AppliedChange rows, nor the caller's position and active branch.
C7_NotReadyRejected ==
    [][(last'.op \in {"sync", "merge"} /\ inst[last'.ctx].status # S_READY)
        => /\ last'.out = "rejected"
           /\ UNCHANGED <<row, events, schema, mainData, mainLog, branchData, branchLog,
                          applied, inst, pc, active>>]_vars

\* A merge() rejected on a merged branch.
C7_Witness ==
    /\ last.op = "merge" /\ last.out = "rejected"
    /\ inst[last.ctx].status = S_MERGED /\ row.status = S_MERGED

\* C8: while a branch is active in the calling context, save() and delete()
\* raise and persist nothing: the row, the provisioning job, the namespace and
\* the events are as before.
C8_GuardedWhileActive ==
    [][(last'.op \in {"save", "delete", "sync_finish", "merge_finish"} /\ active[last'.ctx])
        => /\ last'.out = "abort"
           /\ UNCHANGED <<row, schemaIds, job, schema, branchData, branchLog, events>>]_vars

\* A save() of a new Branch refused while a branch is active.
C8_Witness ==
    last.op = "save" /\ last.out = "abort" /\ inst[last.ctx].has /\ ~inst[last.ctx].pk

\* C9: the active branch of the calling context is the same after the replay of
\* sync() as before it, on every exit path.
C9_ActivationRestored ==
    [][(last'.op = "sync_replay") => active'[last'.ctx] = active[last'.ctx]]_vars

\* C10: a dry run of sync() or merge() leaves both namespaces, the row's status,
\* last_sync, merged_time and merged_by, the events and the AppliedChange rows as
\* they were.
C10_DryRunChangesNothing ==
    [][(last'.op \in {"sync_replay", "merge_replay"} /\ last'.out = "aborted")
        => /\ mainData' = mainData /\ mainLog' = mainLog
           /\ branchData' = branchData /\ branchLog' = branchLog
           /\ applied' = applied /\ events' = events
           /\ row'.status = S_READY
           /\ row'.last_sync = row.last_sync
           /\ row'.merged_time = row.merged_time
           /\ row'.merged_by = row.merged_by]_vars

\* C11: a successful merge() links one AppliedChange to each record it replayed
\* (each the id of the main change record the replay wrote for it) and ends with
\* the persisted status merged, merged_time set to the time of the call,
\* merged_by the acting user and exactly one more merged event.
C11_MergeSuccessState ==
    [][/\ (last'.op = "merge_replay" /\ last'.out = "ok")
            => LET seq == last'.seq
                   new == applied' \ applied
                   written == mainLog' \ mainLog
               IN  /\ applied \subseteq applied'
                   /\ Cardinality(new) = Len(seq)
                   /\ new = {r.id : r \in written}
                   /\ \A k \in 1..Len(seq) :
                         \E r \in written : /\ r.ent = BranchRec(seq[k]).ent
                                            /\ r.act = BranchRec(seq[k]).act
       /\ (last'.op = "merge_finish" /\ last'.out = "ok")
            => /\ row'.exists /\ row'.status = S_MERGED
               /\ row'.merged_time = now /\ row'.merged_time # None
               /\ row'.merged_by = arg[last'.ctx].user
               /\ events' = [events EXCEPT !["merged"] = @ + 1]
               /\ applied' = applied]_vars

\* A merge() that replayed at least one record and returned.
C11_Witness ==
    /\ last.op = "merge_finish" /\ last.out = "ok"
    /\ applied # {} /\ row.status = S_MERGED /\ events["merged"] = 1

\* C12: provision() first sets the persisted status to provisioning; when a step
\* fails the status becomes failed, no provisioned event is recorded and the
\* error is raised; when all steps succeed the namespace exists, the status
\* becomes ready and exactly one provisioned event is recorded.
C12_ProvisionOutcome ==
    [][/\ (last'.op = "provision_begin" /\ row.exists)
            => row'.status = S_PROVISIONING /\ events' = events
       /\ (last'.op = "provision" /\ last'.out = "error" /\ row.exists)
            => row'.status = S_FAILED /\ events' = events
       /\ (last'.op = "provision" /\ last'.out = "ok")
            => /\ row'.exists /\ row'.status = S_READY /\ schema'
               /\ events' = [events EXCEPT !["provisioned"] = @ + 1]]_vars

\* A provision() that failed after it had created the namespace.
C12_Witness ==
    /\ last.op = "provision" /\ last.out = "error"
    /\ row.exists /\ row.status = S_FAILED /\ schema /\ events["provisioned"] = 0

\* C13: a sync() called when main holds no change record newer than the branch's
\* last sync (or its creation, if it was never synced) replays nothing: it
\* leaves the branch namespace's data as it was and succeeds, advancing
\* last_sync, returning the status to ready and recording one synced event.
\* (Stated for calls made with no branch active in the caller's context.)
C13_SyncIdempotent ==
    [][/\ (/\ last'.op = "sync_replay"
           /\ arg[last'.ctx].commit /\ ~active[last'.ctx]
           /\ \A r \in mainLog :
                 r.time <= (IF row.last_sync # None THEN row.last_sync ELSE row.created))
            => last'.out = "ok" /\ branchData' = branchData
       /\ (last'.op = "sync_finish" /\ ~active[last'.ctx])
            => /\ last'.out = "ok"
               /\ row'.status = S_READY
               /\ row'.last_sync = now
               /\ events' = [events EXCEPT !["synced"] = @ + 1]]_vars

\* C14: deprovision() succeeds and leaves no namespace, no table and no branch
\* log whether or not the namespace existed; called when there is no namespace
\* it changes nothing in the database (so calling it twice leaves what calling
\* it once leaves); a delete() that goes through leaves neither the namespace
\* nor the row, and a refused one leaves the namespace as it was.
C14_DeprovisionIdempotent ==
    [][/\ (last'.op = "deprovision")
            => /\ last'.out = "ok"
               /\ ~schema' /\ branchData' = EmptyData /\ branchLog' = {}
               /\ ~schema => UNCHANGED dbvars
       /\ (last'.op = "delete" /\ last'.out = "ok")
            => ~schema' /\ branchData' = EmptyData /\ branchLog' = {} /\ ~row'.exists
       /\ (last'.op = "delete" /\ last'.out = "abort")
            => schema' = schema]_vars

\* A deprovision() of a branch whose provisioning has not started: there is no
\* namespace to drop.
C14_Witness ==
    /\ last.op = "deprovision" /\ last.out = "ok"
    /\ row.exists /\ job \in {"queued", "manual"} /\ ~schema

\* C15: after a successful provision() the namespace holds, for the table of
\* every branch-aware model and the join table between two branch-aware models,
\* exactly the rows of main's table, no row of any other table, and an empty
\* change log.
C15_ProvisionSnapshot ==
    [][(last'.op = "provision" /\ last'.out = "ok")
        => /\ \A e \in Rows :
                 branchData'[e] =
                     IF TableOf(e) \in {"dcim_site", "extras_tag", "dcim_site_tags"}
                     THEN mainData[e] ELSE 0
           /\ branchLog' = {}]_vars

\* A provision() that succeeded after main's objects had changed.
C15_Witness ==
    /\ last.op = "provision" /\ last.out = "ok"
    /\ mainLog # {} /\ branchData[3] = 1 /\ branchData[2] # 0

\* C16: the schema_id of a Branch never changes once its row is written, and a
\* Branch that is created never gets the schema_id of a Branch created before
\* it, deleted ones included.  (The namespace name is the prefix followed by
\* the schema_id, computed from it on demand.)
C16_SchemaIdUnique ==
    [][/\ (row.exists /\ row'.exists) => row'.schema_id = row.schema_id
       /\ (last'.op = "save" /\ last'.out = "ok" /\ ~inst[last'.ctx].pk)
            => inst[last'.ctx].schema_id \notin schemaIds]_vars

\* C17: the records merge() replays are exactly the records the branch's log
\* held when merge() was called: a record written to the branch after the
\* status was set to merging is not replayed by that merge.  (Stated for the
\* merges that go through.)
C17_MergeReplaysCapturedLog ==
    [][(last'.op = "merge_replay" /\ last'.out = "ok")
        => {last'.seq[k] : k \in 1..Len(last'.seq)} = arg[last'.ctx].seen]_vars

\* C18: every change of the persisted status of a Branch follows an edge of the
\* state machine: new to provisioning, provisioning to ready or failed, ready
\* to syncing and back, ready to merging and then to merged or back to ready;
\* merged and failed are never left.
C18_StatusFollowsEdges ==
    [][(row.exists /\ row'.exists /\ row'.status # row.status)
        => <<row.status, row'.status>> \in
              { <<S_NEW, S_PROVISIONING>>, <<S_PROVISIONING, S_READY>>,
                <<S_PROVISIONING, S_FAILED>>, <<S_READY, S_SYNCING>>,
                <<S_SYNCING, S_READY>>, <<S_READY, S_MERGING>>,
                <<S_MERGING, S_MERGED>>, <<S_MERGING, S_READY>> }]_vars

\* The event type a step has to record: the type of the operation that has
\* just completed successfully, "" for every other step.
EventDue(l) ==
    IF l.op = "provision" /\ l.out = "ok" THEN "provisioned"
    ELSE IF l.op = "sync_finish" /\ l.out = "ok" THEN "synced"
    ELSE IF l.op = "merge_finish" /\ l.out = "ok" THEN "merged"
    ELSE IF l.op = "deprovision" /\ l.out = "ok" THEN "deprovisioned"
    ELSE ""

\* C19: the BranchEvent rows of a Branch count its successful operations: a
\* provision, sync, merge or deprovision that succeeds records exactly one
\* event of its type, and no other step (a failed, rejected or dry-run
\* operation included) records or removes one while the Branch exists.
C19_EventPerOperation ==
    [][(row.exists /\ row'.exists)
        => events' = IF EventDue(last') = "" THEN events
                     ELSE [events EXCEPT ![EventDue(last')] = @ + 1]]_vars

\* C20: a namespace exists only for an existing Branch whose persisted status
\* is provisioning, ready, syncing, merging, merged or failed: never for a
\* Branch whose status is new, never for a deleted Branch.
C20_NamespaceOnlyWhenProvisioned ==
    schema => /\ row.exists
              /\ row.status \in {S_PROVISIONING, S_READY, S_SYNCING, S_MERGING,
                                  S_MERGED, S_FAILED}

\* C21: when a sync() or merge() that passed its ready check has finished, by
\* returning or by raising, the persisted status of the Branch is neither
\* syncing nor merging, whatever was active in the caller's context.
C21_StatusLeftOnFinish ==
    [][(/\ last'.op \in {"sync_replay", "sync_finish", "merge_replay", "merge_finish"}
        /\ pc'[last'.ctx] = "idle"
        /\ row'.exists)
        => row'.status \notin {S_SYNCING, S_MERGING}]_vars

====
